---- MODULE Spec2Model ----
(***************************************************************************)
(* Model of the client-side synchronization layer:                         *)
(*   - PrefetchDocumentStorageService (src/unnamed/part_000): the          *)
(*     prefetching, deduplicating cache in front of the storage provider   *)
(*     and the snapshot-tree prefetch walk;                                *)
(*   - DocumentService (src/routerlicious/src/socket-storage/              *)
(*     documentService.ts): the event routing table and connect.           *)
(* JavaScript runs every synchronous function to completion, so each       *)
(* public call and each promise continuation is one atomic action; the     *)
(* storage provider and the transport settle their requests at any later   *)
(* step, in any order, with any outcome.                                   *)
(***************************************************************************)
EXTENDS Integers, Sequences, FiniteSets, TLC

(* ------------------------------ bounds --------------------------------- *)

\* public read calls
MaxReads == 2
\* getSnapshotTree calls made on the facade (public plus nested)
MaxFetches == 2
\* inbound transport events
MaxInbound == 1
\* connect calls
MaxConnects == 2

(* ------------------------- values and names ---------------------------- *)

\* JavaScript null (an absent blob identifier) and undefined
NULL == "null"
UNDEFINED == "undefined"

\* A blob name is the sequence of its characters.
NameHeader == <<"h", "e", "a", "d", "e", "r">>
NameQuorum == <<"q", "u", "o", "r", "u", "m">>
NameQuorumMembers == <<"q", "u", "o", "r", "u", "m", "M">>
NameDotAttr == <<".", "a">>
NameDeltas == <<"d", "e", "l", "t", "a", "s">>
NameContent == <<"c", "o", "n", "t">>
NameHeaderX == <<"h", "e", "a", "d", "e", "r", "X">>
NameMyQuorum == <<"m", "q", "u", "o", "r", "u", "m">>

\* blobKey[0]: the first character, undefined for the empty string
CharAt0(blobKey) == IF Len(blobKey) > 0 THEN blobKey[1] ELSE UNDEFINED

\* blobKey.indexOf(prefix) === 0
IndexOfIs0(blobKey, prefix) ==
    /\ Len(blobKey) >= Len(prefix)
    /\ SubSeq(blobKey, 1, Len(prefix)) = prefix

\* the test of the first branch of prefetchTreeCore
IsEagerKey(blobKey) ==
    \/ CharAt0(blobKey) = "."
    \/ blobKey = NameHeader
    \/ IndexOfIs0(blobKey, NameQuorum)

\* the test of the second branch: blobKey[0] !== "deltas" compares one
\* character with the six-character string
IsSecondaryKey(blobKey) == CharAt0(blobKey) # "deltas"

(* ------------------------ the storage provider ------------------------- *)

Blobs == {"b1", "b2"}

\* The document the nested commit reference "c1" points to: a delta-log
\* entry ahead of an eager blob, and an eager name with no identifier.
TreeModule ==
    [ blobs   |-> << [key |-> NameDeltas, blob |-> "b1"],
                     [key |-> NameHeader, blob |-> "b2"],
                     [key |-> NameQuorum, blob |-> NULL] >>,
      commits |-> << >>,
      trees   |-> << >> ]

\* The root document: a secondary blob ahead of a nested tree that holds an
\* eager blob, names with no identifier, and a nested commit reference.
TreeRoot ==
    [ blobs   |-> << [key |-> NameContent, blob |-> "b1"],
                     [key |-> NameHeaderX, blob |-> NULL] >>,
      commits |-> << [key |-> "module", commit |-> "c1"] >>,
      trees   |-> << [key |-> "sub",
                      tree |-> [ blobs   |-> << [key |-> NameMyQuorum, blob |-> NULL],
                                                [key |-> NameQuorumMembers, blob |-> "b2"] >>,
                                 commits |-> << >>,
                                 trees   |-> << >> ]] >> ]

\* versions a caller asks for; undefined is what the facade passes on when a
\* nested commit has no version
PublicVersions == {"v1"}

\* A document that refers to two nested documents.
TreeLinks ==
    [ blobs   |-> << [key |-> NameContent, blob |-> "b1"] >>,
      commits |-> << [key |-> "first", commit |-> "c1"],
                     [key |-> "second", commit |-> "c2"] >>,
      trees   |-> << >> ]

\* the tree the storage provider holds for a version (undefined: the latest)
StorageTree(version) ==
    IF version = "v2" THEN TreeModule
    ELSE IF version = "v3" THEN TreeLinks
    ELSE TreeRoot

\* the version lists getVersions(commit, 1) may resolve to
VersionLists == { << >>, << "v2" >> }

VARIABLES
    prefetchCache,    \* blobId -> promise (index into storageReads)
    prefetchEnabled,
    storageReads,     \* the underlying storage.read calls, one promise each
    treeFetches,      \* the facade's getSnapshotTree calls
    versionFetches,   \* the getVersions calls made by prefetch walks
    calls,            \* history: every cachedRead call and what it returned
    stopCalled,       \* history: stopPrefetch has been called
    pendingAtStop     \* history: the reads in flight at the first stopPrefetch

prefetchVars == << prefetchCache, prefetchEnabled, storageReads, treeFetches,
                   versionFetches, calls, stopCalled, pendingAtStop >>

VARIABLES
    eventMap,         \* event -> documentId -> connectionMap (DocumentService)
    socketListeners,  \* event -> number of listeners installed with socket.on
    heap,             \* the payload objects: address -> [val, child]
    inbound,          \* history: the events the transport delivered
    dispatched,       \* history: every dispatchEvent call
    registered,       \* history: <<event, documentId, clientId>> -> connection
    objectPrototype,  \* inherited name -> the properties put on its value
    insertionOrder    \* history: <<event, documentId>> -> the client ids in
                      \* the order they were first registered

routingVars == << eventMap, socketListeners, heap, inbound, dispatched, registered,
                 objectPrototype, insertionOrder >>

VARIABLES
    connects          \* the connect calls: their branches and their outcome

connectVars == << connects >>

vars == << prefetchVars, routingVars, connectVars >>

EmptyMap == [x \in {} |-> 0]

(* ----------------------------- cachedRead ------------------------------ *)

\* this.storage.read(blobId): a new underlying read, pending
storageRead(reads, blobId) == Append(reads, [blob |-> blobId, state |-> "pending"])

\* the record kept of one cachedRead call
CallRecord(blobId, promise, kind, walk, key, seen) ==
    [ blob |-> blobId, promise |-> promise, kind |-> kind, walk |-> walk,
      key |-> key, seen |-> seen, stopped |-> stopCalled ]

\* cachedRead without line 66: the new read is not stored in the cache
cachedRead_NoSet(st, blobId, kind, walk, key) ==
    LET p == Len(st.reads) + 1
    IN  IF prefetchEnabled /\ blobId \in DOMAIN st.cache
        THEN [st EXCEPT !.calls = Append(@,
                 CallRecord(blobId, st.cache[blobId], kind, walk, key,
                            st.reads[st.cache[blobId]].state))]
        ELSE [ cache |-> st.cache,
               reads |-> storageRead(st.reads, blobId),
               calls |-> Append(st.calls,
                           CallRecord(blobId, p, kind, walk, key, "new")) ]

\* cachedRead without the test of line 60: the cache is used when disabled
cachedRead_IgnoreEnabled(st, blobId, kind, walk, key) ==
    IF blobId \in DOMAIN st.cache
    THEN [st EXCEPT !.calls = Append(@,
             CallRecord(blobId, st.cache[blobId], kind, walk, key,
                        st.reads[st.cache[blobId]].state))]
    ELSE LET p == Len(st.reads) + 1
         IN  [ cache |-> st.cache @@ (blobId :> p),
               reads |-> storageRead(st.reads, blobId),
               calls |-> Append(st.calls,
                           CallRecord(blobId, p, kind, walk, key, "new")) ]

\* cachedRead that reads again when the cached read has failed
cachedRead_RetryFailed(st, blobId, kind, walk, key) ==
    LET p == Len(st.reads) + 1
    IN  IF /\ prefetchEnabled
           /\ blobId \in DOMAIN st.cache
           /\ st.reads[st.cache[blobId]].state # "fail"
        THEN [st EXCEPT !.calls = Append(@,
                 CallRecord(blobId, st.cache[blobId], kind, walk, key,
                            st.reads[st.cache[blobId]].state))]
        ELSE [ cache |-> IF prefetchEnabled
                         THEN [b \in DOMAIN st.cache \cup {blobId} |->
                                 IF b = blobId THEN p ELSE st.cache[b]]
                         ELSE st.cache,
               reads |-> storageRead(st.reads, blobId),
               calls |-> Append(st.calls,
                           CallRecord(blobId, p, kind, walk, key, "new")) ]

\* cachedRead(blobId) on st = [cache, reads, calls]; kind, walk and key say
\* who called (a public read, or a walk's eager or secondary read)
cachedRead(st, blobId, kind, walk, key) ==
    IF prefetchEnabled
    THEN IF blobId \in DOMAIN st.cache
         THEN [st EXCEPT !.calls = Append(@,
                  CallRecord(blobId, st.cache[blobId], kind, walk, key,
                             st.reads[st.cache[blobId]].state))]
         ELSE LET p == Len(st.reads) + 1
              IN  [ cache |-> st.cache @@ (blobId :> p),
                    reads |-> storageRead(st.reads, blobId),
                    calls |-> Append(st.calls,
                                CallRecord(blobId, p, kind, walk, key, "new")) ]
    ELSE LET p == Len(st.reads) + 1
         IN  [ cache |-> st.cache,
               reads |-> storageRead(st.reads, blobId),
               calls |-> Append(st.calls,
                           CallRecord(blobId, p, kind, walk, key, "new")) ]

(* ------------------------------ the walk ------------------------------- *)

RECURSIVE Concat(_)
Concat(seqs) == IF seqs = << >> THEN << >> ELSE Head(seqs) \o Concat(Tail(seqs))

Effect(op, cls, arg, key) == [op |-> op, cls |-> cls, arg |-> arg, key |-> key]

\* the body of the loop over Object.keys(tree.blobs), for one entry
blobEffects(entry) ==
    IF IsEagerKey(entry.key)
    THEN IF entry.blob # NULL
         THEN << Effect("cachedRead", "eager", entry.blob, entry.key) >>
         ELSE << >>
    ELSE IF IsSecondaryKey(entry.key)
         THEN IF entry.blob # NULL
              THEN << Effect("push", "secondary", entry.blob, entry.key) >>
              ELSE << >>
         ELSE << >>

\* the body of the loop over Object.keys(tree.commits), for one entry
commitEffects(entry) == << Effect("getVersions", 1, entry.commit, entry.key) >>

\* prefetchTreeCore without the loop over tree.trees
prefetchTreeCore_NoSubTrees(tree) ==
    Concat([k \in 1..Len(tree.blobs) |-> blobEffects(tree.blobs[k])])
    \o Concat([k \in 1..Len(tree.commits) |-> commitEffects(tree.commits[k])])

\* prefetchTreeCore(tree, secondary): what it does, in the order it does it:
\* the blobs, then the commits, then the nested trees
RECURSIVE prefetchTreeCore(_)
prefetchTreeCore(tree) ==
    Concat([k \in 1..Len(tree.blobs) |-> blobEffects(tree.blobs[k])])
    \o Concat([k \in 1..Len(tree.commits) |-> commitEffects(tree.commits[k])])
    \o Concat([k \in 1..Len(tree.trees) |-> prefetchTreeCore(tree.trees[k].tree)])

RECURSIVE cachedReadAll(_, _, _)
cachedReadAll(st, effects, walk) ==
    IF effects = << >> THEN st
    ELSE cachedReadAll(cachedRead(st, Head(effects).arg, Head(effects).cls,
                                  walk, Head(effects).key),
                       Tail(effects), walk)

\* prefetchTree that reads every blob where prefetchTreeCore meets it
prefetchTree_ReadInPlace(st, tree, walk) ==
    cachedReadAll(st, SelectSeq(prefetchTreeCore(tree),
                                LAMBDA e : e.op # "getVersions"), walk)

\* prefetchTree(tree): prefetchTreeCore, then a cachedRead of every blob it
\* pushed on the secondary list
prefetchTree(st, tree, walk) ==
    LET core      == prefetchTreeCore(tree)
        immediate == SelectSeq(core, LAMBDA e : e.op = "cachedRead")
        secondary == SelectSeq(core, LAMBDA e : e.op = "push")
    IN  cachedReadAll(cachedReadAll(st, immediate, walk), secondary, walk)

\* the getVersions calls prefetchTreeCore makes for the walk of fetch `walk`
walkVersionFetches(tree, walk) ==
    LET gets == SelectSeq(prefetchTreeCore(tree), LAMBDA e : e.op = "getVersions")
    IN  [k \in 1..Len(gets) |->
            [ commit |-> gets[k].arg, count |-> gets[k].cls, walk |-> walk,
              state |-> "pending", result |-> << >> ]]

(* --------------------------- getSnapshotTree --------------------------- *)

\* getSnapshotTree that returns the promise of p.then(...) instead of p
getSnapshotTree_ReturnThen(version, origin, parent) ==
    [ version |-> version, state |-> "pending", walk |-> prefetchEnabled,
      ret |-> "then", origin |-> origin, parent |-> parent, walked |-> FALSE,
      stopped |-> stopCalled ]

\* getSnapshotTree(version): the underlying fetch p, whether the walk was
\* chained on it (p && this.prefetchEnabled) and the promise returned
getSnapshotTree(version, origin, parent) ==
    [ version |-> version, state |-> "pending", walk |-> prefetchEnabled,
      ret |-> "p", origin |-> origin, parent |-> parent, walked |-> FALSE,
      stopped |-> stopCalled ]

\* the state of the promise a getSnapshotTree call returned: p itself, or
\* (never in this code) the promise of p.then(...)
Outcome(fetch) ==
    IF fetch.ret = "p" THEN fetch.state
    ELSE IF fetch.state \in {"pending", "fail"} THEN fetch.state ELSE UNDEFINED

\* a set as a sequence, in some fixed order
RECURSIVE SetToSeq(_)
SetToSeq(S) ==
    IF S = {} THEN << >>
    ELSE LET x == CHOOSE y \in S : TRUE IN << x >> \o SetToSeq(S \ {x})

(* --------------------------- DocumentService --------------------------- *)

Events == {"op", "nack"}

\* DocumentDeltaConnection objects: k1 and k3 are two connections of the same
\* document and client, k2 another client, k4 another document
\* A client id, like a blob name, is the sequence of its characters.
Connections ==
    { [id |-> "k1", documentId |-> "d1", clientId |-> <<"c", "1">>],
      [id |-> "k2", documentId |-> "d1", clientId |-> <<"c", "2">>],
      [id |-> "k3", documentId |-> "d1", clientId |-> <<"c", "1">>],
      [id |-> "k4", documentId |-> "d2", clientId |-> <<"c", "1">>] }

\* connections whose client ids are canonical numeric strings ("7", "3",
\* "10") next to one that is not
NumberedConnections ==
    { [id |-> "n7", documentId |-> "d1", clientId |-> <<"7">>],
      [id |-> "n3", documentId |-> "d1", clientId |-> <<"3">>],
      [id |-> "n10", documentId |-> "d1", clientId |-> <<"1", "0">>],
      [id |-> "k1", documentId |-> "d1", clientId |-> <<"c", "1">>] }

\* the property names an object literal inherits from Object.prototype
\* (one of them stands for all)
InheritedNames == {"constructor"}

\* event names: the ones the delta connections use and an inherited name
EventNames == Events \cup InheritedNames

\* obj[key] where obj inherits from proto: the own property, else the
\* inherited one, else undefined
getProperty(obj, proto, key) ==
    IF key \in DOMAIN obj THEN obj[key]
    ELSE IF key \in DOMAIN proto THEN proto[key]
    ELSE UNDEFINED

\* key in obj: own properties and the prototype chain
HasProperty(obj, key) == key \in DOMAIN obj \/ key \in InheritedNames

Documents == {c.documentId : c \in Connections}

\* a payload object: a value and a nested object (0: none)
PayloadObject(val, child) == [val |-> val, child |-> child]

\* the addresses of the objects reachable from a payload
RECURSIVE Reachable(_, _)
Reachable(h, addr) ==
    IF addr = 0 THEN {} ELSE {addr} \cup Reachable(h, h[addr].child)

\* a copy of the top-level object that shares the nested object
cloneDeep_Shallow(h, addr) ==
    [heap |-> Append(h, h[addr]), addr |-> Len(h) + 1]

\* _.cloneDeep(message): new objects for the payload and all it holds
RECURSIVE cloneDeep(_, _)
cloneDeep(h, addr) ==
    IF addr = 0 THEN [heap |-> h, addr |-> 0]
    ELSE LET c == cloneDeep(h, h[addr].child)
         IN  [ heap |-> Append(c.heap, PayloadObject(h[addr].val, c.addr)),
               addr |-> Len(c.heap) + 1 ]

DigitChars == <<"0", "1", "2", "3", "4", "5", "6", "7", "8", "9">>
IsDigit(ch) == \E i \in 1..10 : DigitChars[i] = ch
DigitValue(ch) == (CHOOSE i \in 1..10 : DigitChars[i] = ch) - 1

\* a < b for two canonical numeric strings: the shorter is the smaller, and
\* of two of one length the one with the smaller digit where they first
\* differ
NumericLess(a, b) ==
    \/ Len(a) < Len(b)
    \/ /\ Len(a) = Len(b)
       /\ \E i \in 1..Len(a) :
             /\ DigitValue(a[i]) < DigitValue(b[i])
             /\ \A j \in 1..(i - 1) : a[j] = b[j]

\* 2^32 - 1, the first integer that is not an array index
NotAnIndex == <<"4", "2", "9", "4", "9", "6", "7", "2", "9", "5">>

\* a property key that is an array index: a canonical numeric string below
\* 2^32 - 1
IsArrayIndex(key) ==
    /\ Len(key) > 0
    /\ \A i \in 1..Len(key) : IsDigit(key[i])
    /\ (Len(key) > 1 => key[1] # "0")
    /\ NumericLess(key, NotAnIndex)

\* the place of a new key among the own properties in enumeration order:
\* array indices first, in ascending numeric order, then the other keys in
\* the order they were created
InsertAt(obj, key) ==
    IF IsArrayIndex(key)
    THEN Cardinality({i \in 1..Len(obj) :
                         /\ IsArrayIndex(obj[i].key)
                         /\ NumericLess(obj[i].key, key)}) + 1
    ELSE Len(obj) + 1

\* obj[key] = value that always creates a new property
setProperty_AppendAlways(obj, key, value) ==
    Append(obj, [key |-> key, value |-> value])

\* obj[key] = value on an object kept as the sequence of its own properties
\* in enumeration order (the order of for-in): an existing key keeps its
\* place, a new key goes to its place in that order
setProperty(obj, key, value) ==
    IF \E i \in 1..Len(obj) : obj[i].key = key
    THEN [i \in 1..Len(obj) |->
            IF obj[i].key = key THEN [key |-> key, value |-> value] ELSE obj[i]]
    ELSE LET at == InsertAt(obj, key)
         IN  SubSeq(obj, 1, at - 1) \o << [key |-> key, value |-> value] >>
                 \o SubSeq(obj, at, Len(obj))

\* the loop of handleMessage over one connectionMap
RECURSIVE routeToClients(_, _, _, _, _)
routeToClients(st, connectionMap, event, message, msg) ==
    IF connectionMap = << >> THEN st
    ELSE LET entry == Head(connectionMap)
             clone == cloneDeep(st.heap, message)
             next  == IF entry.value # NULL
                      THEN [ st EXCEPT
                               !.heap = clone.heap,
                               !.dispatched = Append(@,
                                   [ msg |-> msg, event |-> event,
                                     connection |-> entry.value,
                                     clone |-> clone.addr ]) ]
                      ELSE st
         IN  routeToClients(next, Tail(connectionMap), event, message, msg)

\* handleMessage that routes to the connections of every document
handleMessage_AnyDocument(st, event, documentId, message, msg) ==
    IF event \notin DOMAIN st.eventMap THEN st
    ELSE routeToClients(st,
             Concat([k \in 1..Len(SetToSeq(DOMAIN st.eventMap[event])) |->
                        st.eventMap[event][SetToSeq(DOMAIN st.eventMap[event])[k]]]),
             event, message, msg)

\* handleMessage(event, documentId, message) on st = [eventMap, heap,
\* dispatched]; msg numbers the inbound event
handleMessage(st, event, documentId, message, msg) ==
    LET objectMap == getProperty(st.eventMap, st.objectPrototype, event)
    IN  IF ~HasProperty(st.eventMap, event) THEN st
        ELSE IF documentId \notin DOMAIN objectMap THEN st
        ELSE routeToClients(st, objectMap[documentId], event, message, msg)

\* the transport calls every listener installed for the event
RECURSIVE callListeners(_, _, _, _, _, _)
callListeners(n, st, event, documentId, message, msg) ==
    IF n = 0 THEN st
    ELSE callListeners(n - 1, handleMessage(st, event, documentId, message, msg),
                       event, documentId, message, msg)

(* ------------------------------- connect ------------------------------- *)

\* the header used when no version is given
emptyHeader ==
    [ attributes |-> [minimumSequenceNumber |-> 0, sequenceNumber |-> 0],
      distributedObjects |-> << >>,
      transformedMessages |-> << >>,
      tree |-> NULL ]

\* the headers blobStorge.getHeader may resolve to
StoredHeaders ==
    { [ attributes |-> [minimumSequenceNumber |-> 1, sequenceNumber |-> 2],
        distributedObjects |-> << "o1" >>,
        transformedMessages |-> << "t1" >>,
        tree |-> "tree1" ],
      [ attributes |-> [minimumSequenceNumber |-> 3, sequenceNumber |-> 3],
        distributedObjects |-> << "o1", "o2" >>,
        transformedMessages |-> << >>,
        tree |-> NULL ] }

\* the acknowledgements of the connectDocument request (messages.IConnected)
Acks ==
    { [clientId |-> <<"c", "1">>, existing |-> TRUE,
       privateKey |-> "ackPrivate", publicKey |-> "ackPublic"],
      [clientId |-> <<"c", "2">>, existing |-> FALSE,
       privateKey |-> "", publicKey |-> ""] }

\* the versions a caller passes to connect: a commit, or none
ConnectVersions == {NULL, "v1"}

\* the class Document: its constructor stores its thirteen arguments
Document(documentId, clientId, existing, version, deltaConnection, documentStorageService, deltaStorageService, distributedObjects, pendingDeltas, transformedMessages, sequenceNumber, minimumSequenceNumber, tree) ==
    [ documentId |-> documentId, clientId |-> clientId, existing |-> existing,
      version |-> version, deltaConnection |-> deltaConnection,
      documentStorageService |-> documentStorageService,
      deltaStorageService |-> deltaStorageService,
      distributedObjects |-> distributedObjects,
      pendingDeltas |-> pendingDeltas,
      transformedMessages |-> transformedMessages,
      sequenceNumber |-> sequenceNumber,
      minimumSequenceNumber |-> minimumSequenceNumber,
      tree |-> tree ]

\* a promise: pending, resolved to a value, or rejected with an error
Pending == [state |-> "pending", value |-> NULL, error |-> NULL]
Resolved(value) == [state |-> "ok", value |-> value, error |-> NULL]
Rejected(error) == [state |-> "fail", value |-> NULL, error |-> error]

\* lines 82-84 with a header fetch for every call
headerP_AlwaysFetch(version) == [promise |-> Pending, fetched |-> TRUE]

\* lines 82-84: headerP, and whether blobStorge.getHeader was called
headerP(version) ==
    IF version # NULL
    THEN [promise |-> Pending, fetched |-> TRUE]
    ELSE [promise |-> Resolved(emptyHeader), fetched |-> FALSE]

\* line 98 with the minimum sequence number as the lower bound
deltaFrom_Minimum(header) == header.attributes.minimumSequenceNumber

\* line 98: the lower bound of the delta fetch (a header is an object, so
\* the test of header is true)
deltaFrom(header) == header.attributes.sequenceNumber

\* a promise not created yet
NotStarted == [state |-> "none", value |-> NULL, error |-> NULL]

ConnectIds == {"d1"}

\* the state of a connect call at its first line
connectCall(id, version, encrypted) ==
    [ id |-> id, version |-> version, encrypted |-> encrypted,
      keys |-> IF encrypted THEN "pending" ELSE "none",
      headerP |-> NotStarted, fetched |-> FALSE,
      connectionP |-> NotStarted, connectMessage |-> NULL,
      pendingDeltasP |-> NotStarted,
      deltaCall |-> [issued |-> FALSE, from |-> 0],
      result |-> Pending,
      failOrder |-> << >>,      \* history: the branches that failed, in order
      lateHeader |-> FALSE,     \* history: the header came after the failure
      lateDeltas |-> FALSE ]    \* history: deltas were fetched after it

\* the continuation of headerP that fetches nothing once connect has failed
thenGetDeltas_Cancelled(c, header) ==
    IF c.result.state = "fail" THEN c
    ELSE [c EXCEPT !.deltaCall = [issued |-> TRUE, from |-> deltaFrom(header)]]

\* lines 97-99, the continuation of headerP: this.deltaStorage.get(id, from)
thenGetDeltas(c, header) ==
    [c EXCEPT !.deltaCall = [issued |-> TRUE, from |-> deltaFrom(header)],
              !.lateDeltas = (c.result.state = "fail")]

\* lines 80-99: the connect message, headerP, the connectDocument request
\* and pendingDeltasP; the continuation of an already resolved headerP runs
\* before anything else can happen
startBranches(c, privateKey, publicKey) ==
    LET h  == headerP(c.version)
        c1 == [c EXCEPT
                 !.headerP = h.promise,
                 !.fetched = h.fetched,
                 !.connectMessage = [id |-> c.id, privateKey |-> privateKey,
                                     publicKey |-> publicKey,
                                     encrypted |-> c.encrypted],
                 !.connectionP = Pending,
                 !.pendingDeltasP = Pending]
    IN  IF h.promise.state = "ok" THEN thenGetDeltas(c1, h.promise.value) ELSE c1

\* a Document built with the header's two counters in each other's place
buildDocument_SwappedCounters(c) ==
    LET header        == c.headerP.value
        connection    == c.connectionP.value
        pendingDeltas == c.pendingDeltasP.value
        deltaConnection ==
            [ service |-> "this", id |-> c.id, clientId |-> connection.clientId,
              encrypted |-> c.encrypted, privateKey |-> connection.privateKey,
              publicKey |-> connection.publicKey ]
        deltaStorage == [id |-> c.id]
        documentStorage == [id |-> c.id, version |-> c.version]
    IN  Document(c.id, connection.clientId, connection.existing, c.version,
                 deltaConnection, documentStorage, deltaStorage,
                 header.distributedObjects, pendingDeltas,
                 header.transformedMessages,
                 header.attributes.minimumSequenceNumber,
                 header.attributes.sequenceNumber, header.tree)

\* lines 107-131: the Document built from the joined results
buildDocument(c) ==
    LET header        == c.headerP.value
        connection    == c.connectionP.value
        pendingDeltas == c.pendingDeltasP.value
        deltaConnection ==
            [ service |-> "this", id |-> c.id, clientId |-> connection.clientId,
              encrypted |-> c.encrypted, privateKey |-> connection.privateKey,
              publicKey |-> connection.publicKey ]
        deltaStorage == [id |-> c.id]
        documentStorage == [id |-> c.id, version |-> c.version]
    IN  Document(c.id, connection.clientId, connection.existing, c.version,
                 deltaConnection, documentStorage, deltaStorage,
                 header.distributedObjects, pendingDeltas,
                 header.transformedMessages, header.attributes.sequenceNumber,
                 header.attributes.minimumSequenceNumber, header.tree)

AllResolved(c) ==
    /\ c.headerP.state = "ok"
    /\ c.connectionP.state = "ok"
    /\ c.pendingDeltasP.state = "ok"

\* a join that reports a failure only when every branch has settled
join_WaitForAll(c, branch) ==
    IF c.result.state # "pending" THEN c
    ELSE IF \E b \in {"headerP", "connectionP", "pendingDeltasP"} :
                c[b].state = "pending" THEN c
    ELSE IF c[branch].state = "fail"
         THEN [c EXCEPT !.result = Rejected(c[branch].error)]
    ELSE IF AllResolved(c) THEN [c EXCEPT !.result = Resolved(buildDocument(c))]
    ELSE c

\* line 104 and what follows it, after the promise of one branch settled:
\* Promise.all rejects with the first rejection and resolves when all three
\* are resolved; a settled result never changes
join(c, branch) ==
    IF c.result.state # "pending" THEN c
    ELSE IF c[branch].state = "fail"
         THEN [c EXCEPT !.result = Rejected(c[branch].error)]
    ELSE IF AllResolved(c) THEN [c EXCEPT !.result = Resolved(buildDocument(c))]
    ELSE c

(* ------------------------------- actions ------------------------------- *)

Init ==
    /\ prefetchCache = EmptyMap
    /\ prefetchEnabled = TRUE
    /\ storageReads = << >>
    /\ treeFetches = << >>
    /\ versionFetches = << >>
    /\ calls = << >>
    /\ stopCalled = FALSE
    /\ pendingAtStop = {}
    /\ eventMap = EmptyMap
    /\ socketListeners = [e \in EventNames |-> 0]
    /\ heap = << >>
    /\ inbound = << >>
    /\ dispatched = << >>
    /\ registered = EmptyMap
    /\ objectPrototype = [n \in InheritedNames |-> EmptyMap]
    /\ insertionOrder = EmptyMap
    /\ connects = << >>

CacheState == [cache |-> prefetchCache, reads |-> storageReads, calls |-> calls]

\* the public read calls made so far
PublicReads == Cardinality({k \in 1..Len(calls) : calls[k].kind = "read"})

\* public read(blobId)
read(blobId) ==
    /\ PublicReads < MaxReads
    /\ LET st == cachedRead(CacheState, blobId, "read", 0, << >>)
       IN  /\ prefetchCache' = st.cache
           /\ storageReads' = st.reads
           /\ calls' = st.calls
    /\ UNCHANGED << prefetchEnabled, treeFetches, versionFetches, stopCalled,
                    pendingAtStop >>
    /\ UNCHANGED << routingVars, connectVars >>

\* public getSnapshotTree(version)
callGetSnapshotTree(version) ==
    /\ Len(treeFetches) < MaxFetches
    /\ treeFetches' = Append(treeFetches, getSnapshotTree(version, "public", 0))
    /\ UNCHANGED << prefetchCache, prefetchEnabled, storageReads, versionFetches,
                    calls, stopCalled, pendingAtStop >>
    /\ UNCHANGED << routingVars, connectVars >>

\* stopPrefetch without line 56: the cache is not cleared
stopPrefetch_NoClear ==
    /\ prefetchEnabled' = FALSE
    /\ stopCalled' = TRUE
    /\ pendingAtStop' = IF stopCalled THEN pendingAtStop
                        ELSE {i \in 1..Len(storageReads) : storageReads[i].state = "pending"}
    /\ UNCHANGED << prefetchCache, storageReads, treeFetches, versionFetches, calls >>
    /\ UNCHANGED << routingVars, connectVars >>

\* public stopPrefetch()
stopPrefetch ==
    /\ prefetchEnabled' = FALSE
    /\ prefetchCache' = EmptyMap
    /\ stopCalled' = TRUE
    /\ pendingAtStop' = IF stopCalled THEN pendingAtStop
                        ELSE {i \in 1..Len(storageReads) : storageReads[i].state = "pending"}
    /\ UNCHANGED << storageReads, treeFetches, versionFetches, calls >>
    /\ UNCHANGED << routingVars, connectVars >>

\* the storage provider settles an underlying read
readSettles(i, outcome) ==
    /\ storageReads[i].state = "pending"
    /\ storageReads' = [storageReads EXCEPT ![i].state = outcome]
    /\ UNCHANGED << prefetchCache, prefetchEnabled, treeFetches, versionFetches,
                    calls, stopCalled, pendingAtStop >>
    /\ UNCHANGED << routingVars, connectVars >>

\* the storage provider settles a tree fetch; the continuation chained by
\* getSnapshotTree then runs prefetchTree when a tree came back
treeSettles(i, outcome) ==
    /\ treeFetches[i].state = "pending"
    /\ IF outcome = "tree" /\ treeFetches[i].walk
       THEN LET tree == StorageTree(treeFetches[i].version)
                st   == prefetchTree(CacheState, tree, i)
            IN  /\ prefetchCache' = st.cache
                /\ storageReads' = st.reads
                /\ calls' = st.calls
                /\ versionFetches' = versionFetches \o walkVersionFetches(tree, i)
                /\ treeFetches' = [treeFetches EXCEPT ![i].state = outcome,
                                                      ![i].walked = TRUE]
       ELSE /\ treeFetches' = [treeFetches EXCEPT ![i].state = outcome]
            /\ UNCHANGED << prefetchCache, storageReads, calls, versionFetches >>
    /\ UNCHANGED << prefetchEnabled, stopCalled, pendingAtStop >>
    /\ UNCHANGED << routingVars, connectVars >>

\* the storage provider settles a getVersions call of a walk; on success the
\* continuation calls this.getSnapshotTree(moduleCommit[0]), a failure is
\* caught and logged
\* a continuation without the catch of line 102: after a failure it goes on
\* to fetch a tree
versionsSettle_NoCatch(j, outcome, list) ==
    /\ versionFetches[j].state = "pending"
    /\ versionFetches' = [versionFetches EXCEPT
                             ![j].state = outcome,
                             ![j].result = IF outcome = "ok" THEN list ELSE << >>]
    /\ treeFetches' = Append(treeFetches,
           getSnapshotTree(IF outcome = "ok" /\ list # << >> THEN list[1]
                           ELSE UNDEFINED,
                           "nested", j))
    /\ UNCHANGED << prefetchCache, prefetchEnabled, storageReads, calls,
                    stopCalled, pendingAtStop >>
    /\ UNCHANGED << routingVars, connectVars >>

versionsSettle(j, outcome, list) ==
    /\ versionFetches[j].state = "pending"
    /\ IF outcome = "ok"
       THEN /\ versionFetches' = [versionFetches EXCEPT ![j].state = "ok",
                                                        ![j].result = list]
            /\ treeFetches' = Append(treeFetches,
                   getSnapshotTree(IF list = << >> THEN UNDEFINED ELSE list[1],
                                   "nested", j))
       ELSE /\ versionFetches' = [versionFetches EXCEPT ![j].state = "fail"]
            /\ UNCHANGED treeFetches
    /\ UNCHANGED << prefetchCache, prefetchEnabled, storageReads, calls,
                    stopCalled, pendingAtStop >>
    /\ UNCHANGED << routingVars, connectVars >>

\* the bound on the facade's getSnapshotTree calls, for a version list that
\* resolves
FetchesLeft(outcome) == outcome = "ok" => Len(treeFetches) < MaxFetches

PrefetchNext ==
    \/ \E b \in Blobs : read(b)
    \/ \E v \in PublicVersions : callGetSnapshotTree(v)
    \/ stopPrefetch
    \/ \E i \in 1..Len(storageReads), o \in {"ok", "fail"} : readSettles(i, o)
    \/ \E i \in 1..Len(treeFetches), o \in {"tree", "null", "fail"} : treeSettles(i, o)
    \/ \E j \in 1..Len(versionFetches), o \in {"ok", "fail"}, l \in VersionLists :
          FetchesLeft(o) /\ versionsSettle(j, o, l)

PrefetchSpec == Init /\ [][PrefetchNext]_vars

\* the cache alone: public reads, stopPrefetch and the storage's answers
ReadNext ==
    \/ \E b \in Blobs : read(b)
    \/ stopPrefetch
    \/ \E i \in 1..Len(storageReads), o \in {"ok", "fail"} : readSettles(i, o)

ReadSpec == Init /\ [][ReadNext]_vars

\* the prefetch walks alone: no public read is made
WalkNext ==
    \/ \E v \in PublicVersions : callGetSnapshotTree(v)
    \/ stopPrefetch
    \/ \E i \in 1..Len(storageReads), o \in {"ok", "fail"} : readSettles(i, o)
    \/ \E i \in 1..Len(treeFetches), o \in {"tree", "null", "fail"} : treeSettles(i, o)
    \/ \E j \in 1..Len(versionFetches), o \in {"ok", "fail"}, l \in VersionLists :
          FetchesLeft(o) /\ versionsSettle(j, o, l)

WalkSpec == Init /\ [][WalkNext]_vars

\* version lists of documents whose nested commits all have a version
ResolvedVersionLists == { << "v2" >> }

\* One getSnapshotTree call and all the prefetch activity that follows from
\* it, over documents whose nested commit references are acyclic (the
\* nested document refers to no other) and resolve to a version.
OneWalkNext ==
    \/ \E v \in {"v1", "v3"} : treeFetches = << >> /\ callGetSnapshotTree(v)
    \/ stopPrefetch
    \/ \E i \in 1..Len(storageReads), o \in {"ok", "fail"} : readSettles(i, o)
    \/ \E i \in 1..Len(treeFetches), o \in {"tree", "null", "fail"} : treeSettles(i, o)
    \/ \E j \in 1..Len(versionFetches), o \in {"ok", "fail"}, l \in ResolvedVersionLists :
          versionsSettle(j, o, l)

\* the storage provider answers every request made of it
StorageAnswers ==
    /\ WF_vars(\E i \in 1..Len(storageReads), o \in {"ok", "fail"} : readSettles(i, o))
    /\ WF_vars(\E i \in 1..Len(treeFetches), o \in {"tree", "null", "fail"} :
                  treeSettles(i, o))
    /\ WF_vars(\E j \in 1..Len(versionFetches), o \in {"ok", "fail"},
                  l \in ResolvedVersionLists : versionsSettle(j, o, l))

OneWalkSpec == Init /\ [][OneWalkNext]_vars /\ StorageAnswers

(* ------------------------ DocumentService actions ---------------------- *)

\* registerForEvent(event, connection)
registerForEvent(event, connection) ==
    LET listening == HasProperty(eventMap, event)
        \* line 147
        eventMap1 == IF listening THEN eventMap
                     ELSE [e \in DOMAIN eventMap \cup {event} |->
                              IF e = event THEN EmptyMap ELSE eventMap[e]]
        \* line 156: the table's own entry, or the inherited object
        objectMap == getProperty(eventMap1, objectPrototype, event)
        \* line 157 (no document id of the model is an inherited name)
        connectionMap == IF connection.documentId \in DOMAIN objectMap
                         THEN objectMap[connection.documentId]
                         ELSE << >>
        newObjectMap ==
            [d \in DOMAIN objectMap \cup {connection.documentId} |->
                IF d = connection.documentId
                THEN setProperty(connectionMap, connection.clientId, connection.id)
                ELSE objectMap[d]]
        triple == << event, connection.documentId, connection.clientId >>
        pair == << event, connection.documentId >>
    IN  /\ socketListeners' =
               IF listening THEN socketListeners
               ELSE [socketListeners EXCEPT ![event] = @ + 1]
        /\ IF event \in DOMAIN eventMap1
           THEN /\ eventMap' = [eventMap1 EXCEPT ![event] = newObjectMap]
                /\ UNCHANGED objectPrototype
           ELSE /\ objectPrototype' = [objectPrototype EXCEPT ![event] = newObjectMap]
                /\ UNCHANGED eventMap
        /\ registered' = [t \in DOMAIN registered \cup {triple} |->
                             IF t = triple THEN connection.id ELSE registered[t]]
        /\ insertionOrder' =
               [q \in DOMAIN insertionOrder \cup {pair} |->
                   IF q # pair THEN insertionOrder[q]
                   ELSE IF triple \in DOMAIN registered THEN insertionOrder[q]
                   ELSE IF q \in DOMAIN insertionOrder
                        THEN Append(insertionOrder[q], connection.clientId)
                   ELSE << connection.clientId >>]
        /\ UNCHANGED << heap, inbound, dispatched >>
    /\ UNCHANGED << prefetchVars, connectVars >>

\* the connections registered under an event and a document
RegisteredFor(event, documentId) ==
    {registered[t] : t \in {u \in DOMAIN registered :
                                u[1] = event /\ u[2] = documentId}}

\* the connections registered under an event and a document, in the order
\* their client ids were first registered
RegistrationOrder(event, documentId) ==
    IF << event, documentId >> \notin DOMAIN insertionOrder THEN << >>
    ELSE [k \in 1..Len(insertionOrder[<< event, documentId >>]) |->
             registered[<< event, documentId,
                           insertionOrder[<< event, documentId >>][k] >>]]

\* the transport delivers an event (documentId, message): the message is a
\* new object holding a nested object, and every listener installed for the
\* event is called
inboundEvent(event, documentId) ==
    /\ Len(inbound) < MaxInbound
    /\ LET msg     == Len(inbound) + 1
           h       == Append(Append(heap, PayloadObject(0, 0)),
                             PayloadObject(0, Len(heap) + 1))
           message == Len(h)
           st      == callListeners(socketListeners[event],
                          [eventMap |-> eventMap, objectPrototype |-> objectPrototype,
                           heap |-> h, dispatched |-> dispatched],
                          event, documentId, message, msg)
       IN  /\ eventMap' = st.eventMap
           /\ heap' = st.heap
           /\ dispatched' = st.dispatched
           /\ inbound' = Append(inbound,
                 [ event |-> event, documentId |-> documentId,
                   message |-> message,
                   expected |-> RegisteredFor(event, documentId),
                   order |-> RegistrationOrder(event, documentId),
                   tableChanged |-> st.eventMap # eventMap ])
    /\ UNCHANGED << socketListeners, registered, objectPrototype, insertionOrder >>
    /\ UNCHANGED << prefetchVars, connectVars >>

\* the subscriber that received delivery d writes into an object of the
\* payload it was given
subscriberMutates(d, addr) ==
    /\ addr \in Reachable(heap, dispatched[d].clone)
    /\ heap[addr].val = 0
    /\ heap' = [heap EXCEPT ![addr].val = d]
    /\ UNCHANGED << eventMap, socketListeners, inbound, dispatched, registered,
                    objectPrototype, insertionOrder >>
    /\ UNCHANGED << prefetchVars, connectVars >>

RoutingNext ==
    \/ \E e \in Events, c \in Connections : registerForEvent(e, c)
    \/ \E e \in Events, d \in Documents : inboundEvent(e, d)
    \/ \E d \in 1..Len(dispatched), a \in 1..Len(heap) : subscriberMutates(d, a)

RoutingSpec == Init /\ [][RoutingNext]_vars

\* registration under any event name, and the events the transport delivers
RegistryNext ==
    \/ \E e \in EventNames, c \in Connections : registerForEvent(e, c)
    \/ \E e \in EventNames, d \in Documents : inboundEvent(e, d)

RegistrySpec == Init /\ [][RegistryNext]_vars

\* registration of connections whose client ids are numeric strings
OrderNext ==
    \/ \E e \in Events, c \in NumberedConnections : registerForEvent(e, c)
    \/ \E e \in Events, d \in Documents : inboundEvent(e, d)

OrderSpec == Init /\ [][OrderNext]_vars

(* ------------------- properties of the prefetch cache ------------------ *)

ReadsOf(b) == {i \in 1..Len(storageReads) : storageReads[i].blob = b}
CallsOf(b) == {k \in 1..Len(calls) : calls[k].blob = b}
WalkCallsOf(i) == {k \in 1..Len(calls) : calls[k].kind # "read" /\ calls[k].walk = i}
FirstOf(S) == CHOOSE k \in S : \A j \in S : k <= j

\* C1: while prefetching is enabled, a blob identifier that has been asked
\* for (by public reads and by walks, in any interleaving) has exactly one
\* underlying storage read, a blob never asked for has none, and every
\* cachedRead call for it returned the promise stored by the first call.
C1_OneReadPerBlob ==
    prefetchEnabled =>
        \A b \in Blobs :
            /\ Cardinality(ReadsOf(b)) = IF CallsOf(b) = {} THEN 0 ELSE 1
            /\ \A k \in CallsOf(b) :
                  /\ calls[k].promise \in ReadsOf(b)
                  /\ calls[k].promise = calls[FirstOf(CallsOf(b))].promise

\* a public read and a walk's read of the same blob, both made before the
\* underlying read has settled
C1_Witness ==
    /\ prefetchEnabled
    /\ \E j, k \in 1..Len(calls) :
          /\ calls[j].blob = calls[k].blob
          /\ calls[j].kind = "read"
          /\ calls[k].kind # "read"
          /\ calls[j].seen \in {"new", "pending"}
          /\ calls[k].seen \in {"new", "pending"}
          /\ storageReads[calls[j].promise].state = "pending"

\* C2: a cachedRead made after stopPrefetch() issues a new underlying read
\* of its blob, returns a promise no earlier call returned, and leaves the
\* cache empty; the reads in flight at stopPrefetch() are still there and
\* are pending or settled by the storage provider.
C2_ReadAfterStop ==
    /\ \A k \in 1..Len(calls) :
          calls[k].stopped =>
              /\ calls[k].seen = "new"
              /\ calls[k].promise \in ReadsOf(calls[k].blob)
              /\ \A j \in 1..(k - 1) : calls[j].promise # calls[k].promise
    /\ stopCalled => DOMAIN prefetchCache = {}
    /\ \A i \in pendingAtStop :
          /\ i \in 1..Len(storageReads)
          /\ storageReads[i].state \in {"pending", "ok", "fail"}

\* a blob read before stopPrefetch(), in flight at the call, is read again
\* afterwards, and the first read has settled with its own result
C2_Witness ==
    \E j, k \in 1..Len(calls) :
        /\ j < k
        /\ calls[j].blob = calls[k].blob
        /\ ~calls[j].stopped
        /\ calls[k].stopped
        /\ calls[j].promise \in pendingAtStop
        /\ storageReads[calls[j].promise].state = "ok"
        /\ storageReads[calls[k].promise].state = "fail"

\* C3: once stopPrefetch() has been called, prefetching is disabled and the
\* cache is empty in every later state.
C3_StopIsIrreversible ==
    stopCalled => ~prefetchEnabled /\ DOMAIN prefetchCache = {}

\* after stopPrefetch(): a walk chained before the call has issued its reads,
\* a nested commit has resolved and its tree has been fetched, and a public
\* read has been made
C3_Witness ==
    /\ stopCalled
    /\ \E k \in 1..Len(calls) :
          /\ calls[k].stopped
          /\ calls[k].kind # "read"
          /\ treeFetches[calls[k].walk].walk
    /\ \E k \in 1..Len(calls) : calls[k].stopped /\ calls[k].kind = "read"
    /\ \E f \in 1..Len(treeFetches) :
          treeFetches[f].origin = "nested" /\ ~treeFetches[f].walk

\* C4: while prefetching is enabled, a failed underlying read is still the
\* cache entry of its blob, it is the only underlying read of that blob, and
\* every cachedRead call for the blob returned it.
C4_FailureStaysCached ==
    prefetchEnabled =>
        \A i \in 1..Len(storageReads) :
            storageReads[i].state = "fail" =>
                LET b == storageReads[i].blob
                IN  /\ b \in DOMAIN prefetchCache
                    /\ prefetchCache[b] = i
                    /\ ReadsOf(b) = {i}
                    /\ \A k \in CallsOf(b) : calls[k].promise = i

\* a read made after the cached read of its blob had failed
C4_Witness ==
    /\ prefetchEnabled
    /\ \E k \in 1..Len(calls) :
          /\ calls[k].seen = "fail"
          /\ storageReads[calls[k].promise].state = "fail"

(* ------------------- properties of the prefetch walk ------------------- *)

\* every blob entry of a tree, at every nesting level
RECURSIVE AllBlobs(_)
AllBlobs(tree) ==
    {tree.blobs[k] : k \in 1..Len(tree.blobs)}
    \cup UNION {AllBlobs(tree.trees[k].tree) : k \in 1..Len(tree.trees)}

\* every nested commit reference of a tree, at every nesting level
RECURSIVE AllCommits(_)
AllCommits(tree) ==
    {tree.commits[k] : k \in 1..Len(tree.commits)}
    \cup UNION {AllCommits(tree.trees[k].tree) : k \in 1..Len(tree.trees)}

\* the names the specification calls eager, and the delta-log marker
EagerName(name) ==
    \/ (Len(name) > 0 /\ name[1] = ".")
    \/ name = <<"h", "e", "a", "d", "e", "r">>
    \/ (Len(name) >= 6 /\ SubSeq(name, 1, 6) = <<"q", "u", "o", "r", "u", "m">>)
DeltaLogName(name) ==
    Len(name) >= 6 /\ SubSeq(name, 1, 6) = <<"d", "e", "l", "t", "a", "s">>

Walked == {i \in 1..Len(treeFetches) : treeFetches[i].walked}
Public == {i \in 1..Len(treeFetches) : treeFetches[i].origin = "public"}
Nested == {i \in 1..Len(treeFetches) : treeFetches[i].origin = "nested"}

\* C5: the promise a public getSnapshotTree call returned is in the state of
\* the underlying provider's fetch (pending, a tree, absent or failed),
\* whatever the walk has done.
C5_TreeOutcomeIsUnderlying ==
    \A i \in Public : Outcome(treeFetches[i]) = treeFetches[i].state

\* the caller has its tree while one read of the walk has failed and another
\* is still pending
C5_Witness ==
    \E i \in Public :
        /\ Outcome(treeFetches[i]) = "tree"
        /\ \E j, k \in WalkCallsOf(i) :
              /\ storageReads[calls[j].promise].state = "fail"
              /\ storageReads[calls[k].promise].state = "pending"

\* C6: in a walk, every eager blob entry of the tree, at any nesting level,
\* has a cachedRead, and that call comes before the cachedRead of every
\* blob entry that is not eager.
C6_EagerBeforeSecondary ==
    \A i \in Walked :
        /\ \A e \in AllBlobs(StorageTree(treeFetches[i].version)) :
              (EagerName(e.key) /\ e.blob # NULL) =>
                  \E k \in WalkCallsOf(i) :
                      calls[k].key = e.key /\ calls[k].blob = e.blob
        /\ \A j, k \in WalkCallsOf(i) :
              (EagerName(calls[j].key) /\ ~EagerName(calls[k].key)) => j < k

\* a walk that read an eager blob of a nested tree and a secondary blob that
\* comes earlier in the tree
C6_Witness ==
    \E i \in Walked :
        \E j, k \in WalkCallsOf(i) :
            /\ calls[j].key = NameQuorumMembers
            /\ calls[k].key = NameContent
            /\ j < k

\* C7: no walk issues a cachedRead for a blob entry named as a delta-log
\* entry.
C7_NoDeltaLogPrefetch ==
    \A k \in 1..Len(calls) :
        calls[k].kind # "read" => ~DeltaLogName(calls[k].key)

\* the first version of a resolved version list
FirstVersion(list) == IF list = << >> THEN UNDEFINED ELSE list[1]

\* what C8 says of the blobs, the commits and the fetch of a nested commit's
\* tree
C8_Structure ==
    /\ \A i \in Walked :
          LET tree == StorageTree(treeFetches[i].version)
          IN  /\ \A e \in AllBlobs(tree) :
                    (e.blob # NULL /\ ~DeltaLogName(e.key)) =>
                        \E k \in WalkCallsOf(i) :
                            /\ calls[k].key = e.key
                            /\ calls[k].blob = e.blob
                            /\ calls[k].kind =
                                 IF EagerName(e.key) THEN "eager" ELSE "secondary"
              /\ \A k \in WalkCallsOf(i) :
                    /\ calls[k].blob # NULL
                    /\ \E e \in AllBlobs(tree) :
                          e.key = calls[k].key /\ e.blob = calls[k].blob
              /\ \A c \in AllCommits(tree) :
                    \E j \in 1..Len(versionFetches) :
                        /\ versionFetches[j].walk = i
                        /\ versionFetches[j].commit = c.commit
                        /\ versionFetches[j].count = 1
    /\ \A j \in 1..Len(versionFetches) :
          versionFetches[j].state = "ok" =>
              \E f \in Nested :
                  /\ treeFetches[f].parent = j
                  /\ treeFetches[f].version = FirstVersion(versionFetches[j].result)

\* C8 as stated: a walk covers the nested trees and commits, and the tree of
\* every nested commit, once fetched, is walked.
C8_Original ==
    /\ C8_Structure
    /\ \A f \in Nested : treeFetches[f].state = "tree" => treeFetches[f].walked

\* C8 as amended: the tree of a nested commit is walked when prefetching was
\* still enabled at the time its version list resolved; after stopPrefetch()
\* it is fetched and not walked.
C8_NestedCoverage ==
    /\ C8_Structure
    /\ \A f \in Nested :
          treeFetches[f].state = "tree" =>
              (treeFetches[f].walked <=> treeFetches[f].walk)
    /\ \A f \in Nested : treeFetches[f].walk <=> ~treeFetches[f].stopped

\* the tree of a nested commit has been fetched and walked
C8_Witness ==
    \E f \in Nested :
        /\ treeFetches[f].walked
        /\ treeFetches[f].version = "v2"
        /\ treeFetches[versionFetches[treeFetches[f].parent].walk].walked
        /\ WalkCallsOf(f) # {}

(* ---------------------- properties of the routing --------------------- *)

DeliveriesOf(m) == {d \in 1..Len(dispatched) : dispatched[d].msg = m}

C10_IndependentCopies ==
    /\ \A d \in 1..Len(dispatched) :
          LET mine == Reachable(heap, dispatched[d].clone)
              message == inbound[dispatched[d].msg].message
          IN  /\ Cardinality(mine) = Cardinality(Reachable(heap, message))
              /\ mine \cap Reachable(heap, message) = {}
              /\ \A e \in 1..Len(dispatched) :
                    e # d => mine \cap Reachable(heap, dispatched[e].clone) = {}
              /\ \A a \in mine : heap[a].val \in {0, d}
    /\ \A m \in 1..Len(inbound) :
          \A a \in Reachable(heap, inbound[m].message) : heap[a].val = 0

\* two subscribers of one inbound message, one of which has written into the
\* nested object of its payload
C10_Witness ==
    \E d, e \in 1..Len(dispatched) :
        /\ d # e
        /\ dispatched[d].msg = dispatched[e].msg
        /\ heap[heap[dispatched[d].clone].child].val = d
        /\ heap[heap[dispatched[e].clone].child].val = 0

(* -------------------------- connect actions --------------------------- *)

\* public connect(id, version, connect, encrypted): up to the first await
connect(id, version, encrypted) ==
    /\ Len(connects) < MaxConnects
    /\ connects' = Append(connects,
           IF encrypted THEN connectCall(id, version, encrypted)
           ELSE startBranches(connectCall(id, version, encrypted), "", ""))
    /\ UNCHANGED << prefetchVars, routingVars >>

\* api.generateAsymmetricKeys settles (line 72); connect goes on or throws
keysSettle(i, outcome) ==
    /\ connects[i].keys = "pending"
    /\ connects' = [connects EXCEPT ![i] =
           IF outcome = "ok"
           THEN startBranches([@ EXCEPT !.keys = "ok"], "genPrivate", "genPublic")
           ELSE [@ EXCEPT !.keys = "fail", !.result = Rejected("keyError")]]
    /\ UNCHANGED << prefetchVars, routingVars >>

\* blobStorge.getHeader settles
headerSettles(i, outcome, header) ==
    /\ connects[i].headerP.state = "pending"
    /\ connects' = [connects EXCEPT ![i] =
           IF outcome = "ok"
           THEN join(thenGetDeltas(
                        [@ EXCEPT !.headerP = Resolved(header),
                                  !.lateHeader = (connects[i].result.state = "fail")],
                        header),
                     "headerP")
           ELSE join([@ EXCEPT !.headerP = Rejected("headerError"),
                               !.pendingDeltasP = Rejected("headerError"),
                               !.failOrder = Append(@, "headerError")],
                     "headerP")]
    /\ UNCHANGED << prefetchVars, routingVars >>

\* the acknowledgement of the connectDocument request (lines 89-95)
handshakeAck(i, error, response) ==
    /\ connects[i].connectionP.state = "pending"
    /\ connects' = [connects EXCEPT ![i] =
           IF error # NULL
           THEN join([@ EXCEPT !.connectionP = Rejected(error),
                               !.failOrder = Append(@, error)],
                     "connectionP")
           ELSE join([@ EXCEPT !.connectionP = Resolved(response)], "connectionP")]
    /\ UNCHANGED << prefetchVars, routingVars >>

\* deltaStorage.get settles: the storage answers with count messages after
\* the lower bound it was asked for
deltasSettle(i, outcome, count) ==
    /\ connects[i].deltaCall.issued
    /\ connects[i].pendingDeltasP.state = "pending"
    /\ connects' = [connects EXCEPT ![i] =
           IF outcome = "ok"
           THEN join([@ EXCEPT !.pendingDeltasP =
                          Resolved([from |-> connects[i].deltaCall.from,
                                    count |-> count])],
                     "pendingDeltasP")
           ELSE join([@ EXCEPT !.pendingDeltasP = Rejected("deltaError"),
                               !.failOrder = Append(@, "deltaError")],
                     "pendingDeltasP")]
    /\ UNCHANGED << prefetchVars, routingVars >>

ConnectNext ==
    \/ \E id \in ConnectIds, v \in ConnectVersions, en \in BOOLEAN : connect(id, v, en)
    \/ \E i \in 1..Len(connects), o \in {"ok", "fail"} : keysSettle(i, o)
    \/ \E i \in 1..Len(connects), o \in {"ok", "fail"}, h \in StoredHeaders :
          headerSettles(i, o, h)
    \/ \E i \in 1..Len(connects), e \in {NULL, "handshakeError"}, r \in Acks :
          handshakeAck(i, e, r)
    \/ \E i \in 1..Len(connects), o \in {"ok", "fail"}, n \in {0, 1} :
          deltasSettle(i, o, n)

ConnectSpec == Init /\ [][ConnectNext]_vars

(* -------------------- properties of the registration ------------------ *)

\* C11: for every event name, the number of listeners installed on the
\* transport is one if a registration was made under that event and zero
\* otherwise.
C11_OneListenerPerEvent ==
    \A e \in EventNames :
        socketListeners[e] = IF \E t \in DOMAIN registered : t[1] = e THEN 1 ELSE 0

\* the connections stored in the table under a triple
Lookup(em, t) ==
    IF t[1] \in DOMAIN em /\ t[2] \in DOMAIN em[t[1]]
    THEN {k \in 1..Len(em[t[1]][t[2]]) : em[t[1]][t[2]][k].key = t[3]}
    ELSE {}

ClientIds == {c.clientId : c \in Connections}
Triples == Events \X Documents \X ClientIds

DispatchOrder(m) ==
    LET ds == SelectSeq(dispatched, LAMBDA d : d.msg = m)
    IN  [k \in 1..Len(ds) |-> ds[k].connection]

\* C13: an inbound event is dispatched to the connections registered under
\* its event and document in the order their client ids were registered.
C13_InsertionOrderDelivery ==
    \A m \in 1..Len(inbound) : DispatchOrder(m) = inbound[m].order

(* ------------------------ properties of connect ------------------------ *)

C15_HeaderAndHandshakeUnordered ==
    \A i \in 1..Len(connects) :
        LET c == connects[i]
        IN  /\ (c.version # NULL /\ c.keys = "pending") => c.fetched
            /\ c.connectionP.state # "none" => c.headerP.state # "none"
            /\ c.headerP.state # "none" => c.connectionP.state # "none"

\* C16: a connect with no version never calls getHeader, has the default
\* header, fetches its pending deltas from sequence 0, and when it
\* succeeds its Document has both counters 0, no distributed objects, no
\* transformed messages and no tree.
C16_DefaultHeader ==
    \A i \in 1..Len(connects) :
        LET c == connects[i]
        IN  c.version = NULL =>
              /\ ~c.fetched
              /\ c.headerP.state \in {"none", "ok"}
              /\ c.headerP.state = "ok" =>
                    /\ c.headerP.value = emptyHeader
                    /\ c.deltaCall.issued
                    /\ c.deltaCall.from = 0
              /\ c.headerP.state = "none" => ~c.deltaCall.issued
              /\ c.result.state = "ok" =>
                    /\ c.result.value.sequenceNumber = 0
                    /\ c.result.value.minimumSequenceNumber = 0
                    /\ c.result.value.distributedObjects = << >>
                    /\ c.result.value.transformedMessages = << >>
                    /\ c.result.value.tree = NULL
                    /\ c.result.value.pendingDeltas.from = 0

\* a connect with no version that has returned its Document
C16_Witness ==
    \E i \in 1..Len(connects) :
        /\ connects[i].version = NULL
        /\ connects[i].result.state = "ok"
        /\ connects[i].result.value.pendingDeltas.count = 1

\* C17: as soon as a branch of a connect has failed the connect has failed,
\* with no Document and with the error of the branch that failed first,
\* whatever the other branches have done or do.
C17_FailsWithFirstError ==
    \A i \in 1..Len(connects) :
        LET c == connects[i]
        IN  c.failOrder # << >> =>
              /\ c.result.state = "fail"
              /\ c.result.error = c.failOrder[1]

\* the handshake was rejected after the header had resolved and while the
\* delta fetch is still pending
C17_Witness ==
    \E i \in 1..Len(connects) :
        /\ connects[i].failOrder = << "handshakeError" >>
        /\ connects[i].headerP.state = "ok"
        /\ ~connects[i].lateHeader
        /\ connects[i].pendingDeltasP.state = "pending"
        /\ connects[i].result.error = "handshakeError"

\* C18: a connect has returned a Document only when its header, handshake
\* and pending deltas have all resolved, and the Document holds the id and
\* version of the call, the clientId and existing flag of the
\* acknowledgement, the header's distributedObjects, transformedMessages
\* and two counters, and the deltas fetched at the header's sequenceNumber.
C18_DocumentFromJoinedResults ==
    \A i \in 1..Len(connects) :
        LET c == connects[i]
            d == c.result.value
        IN  c.result.state = "ok" =>
              /\ AllResolved(c)
              /\ d.documentId = c.id
              /\ d.version = c.version
              /\ d.clientId = c.connectionP.value.clientId
              /\ d.existing = c.connectionP.value.existing
              /\ d.distributedObjects = c.headerP.value.distributedObjects
              /\ d.transformedMessages = c.headerP.value.transformedMessages
              /\ d.sequenceNumber = c.headerP.value.attributes.sequenceNumber
              /\ d.minimumSequenceNumber =
                     c.headerP.value.attributes.minimumSequenceNumber
              /\ d.pendingDeltas = c.pendingDeltasP.value
              /\ d.pendingDeltas.from = c.headerP.value.attributes.sequenceNumber

\* a Document built from a stored header whose counters differ
C18_Witness ==
    \E i \in 1..Len(connects) :
        /\ connects[i].result.state = "ok"
        /\ connects[i].version = "v1"
        /\ connects[i].result.value.sequenceNumber = 2
        /\ connects[i].result.value.minimumSequenceNumber = 1
        /\ connects[i].result.value.existing

\* C19: after a connect has failed, its pending header fetch can still
\* resolve, and once it has resolved the pending-delta fetch has been
\* issued; the failure reported never changes, and no step of a connect
\* changes the prefetch cache or the routing table.
C19_AbandonedBranchesRun ==
    /\ [](\A i \in 1..Len(connects) :
            LET c == connects[i]
            IN  /\ c.headerP.state = "pending" =>
                      \E h \in StoredHeaders : ENABLED headerSettles(i, "ok", h)
                /\ c.headerP.state = "ok" => c.deltaCall.issued
                /\ (c.deltaCall.issued /\ c.pendingDeltasP.state = "pending") =>
                      ENABLED deltasSettle(i, "ok", 1))
    /\ [][(\A i \in 1..Len(connects) :
               connects[i].result.state = "fail" =>
                   connects'[i].result = connects[i].result)
           /\ (connects' # connects =>
                   (prefetchCache' = prefetchCache /\ eventMap' = eventMap))]_vars

\* the handshake rejection failed the connect; afterwards the header
\* resolved, the deltas were fetched and resolved too
C19_Witness ==
    \E i \in 1..Len(connects) :
        /\ connects[i].result.state = "fail"
        /\ connects[i].result.error = "handshakeError"
        /\ connects[i].lateHeader
        /\ connects[i].lateDeltas
        /\ connects[i].pendingDeltasP.state = "ok"

(* ---------------------- termination of the prefetch -------------------- *)

\* no request to the storage provider is pending
Quiescent ==
    /\ \A i \in 1..Len(storageReads) : storageReads[i].state # "pending"
    /\ \A i \in 1..Len(treeFetches) : treeFetches[i].state # "pending"
    /\ \A j \in 1..Len(versionFetches) : versionFetches[j].state # "pending"

NestedOf(j) == {f \in Nested : treeFetches[f].parent = j}

\* C20: the activity that follows one getSnapshotTree call makes a bounded
\* number of getVersions, getSnapshotTree and read calls and comes to an
\* end; a nested commit whose version fetch failed gets no tree fetch, while
\* the walk that asked for it has made its getVersions call for every
\* commit and its reads, and every nested commit that resolved has its tree
\* fetched.
C20_PrefetchTerminates ==
    /\ [](/\ Len(versionFetches) <= 2
          /\ Len(treeFetches) <= 1 + Len(versionFetches)
          /\ Len(storageReads) <= 2 * Len(treeFetches)
          /\ \A i \in Walked :
                LET tree == StorageTree(treeFetches[i].version)
                IN  /\ Cardinality({j \in 1..Len(versionFetches) :
                                        versionFetches[j].walk = i})
                          = Cardinality(AllCommits(tree))
                    /\ \A e \in AllBlobs(tree) :
                          e.blob # NULL =>
                              \E k \in WalkCallsOf(i) : calls[k].key = e.key
          /\ \A j \in 1..Len(versionFetches) :
                Cardinality(NestedOf(j)) =
                    IF versionFetches[j].state = "ok" THEN 1 ELSE 0)
    /\ <>[]Quiescent

\* the version fetch of one nested commit failed; the other resolved, its
\* tree was fetched and walked, and everything has settled
C20_Witness ==
    /\ Quiescent
    /\ \E i \in Walked, j, k \in 1..Len(versionFetches) :
          /\ treeFetches[i].version = "v3"
          /\ versionFetches[j].state = "fail"
          /\ versionFetches[k].state = "ok"
          /\ j < k
          /\ \E f \in NestedOf(k) : f \in Walked /\ WalkCallsOf(f) # {}
          /\ WalkCallsOf(i) # {}

====
